---- MODULE Spec2Model ----
(***************************************************************************)
(* Authentication and session-token lifecycle of the Bookmark Manager API: *)
(* the users and refresh_tokens tables, the token issuer and verifier      *)
(* (utils/auth), the auth gate (middlewares/auth.middleware) and the auth  *)
(* controller (register, login, refresh-token, logout, profile), together  *)
(* with the hourly sweep of expired refresh tokens.                        *)
(*                                                                         *)
(* Time is counted in days.  Every database statement may throw (storage   *)
(* failure); each handler is one action whose `fail` input names the       *)
(* statement that throws, "none" when all of them execute.                 *)
(***************************************************************************)
EXTENDS Integers, Sequences, FiniteSets, TLC

\* ---------------------------------------------------------------- bounds
MaxTime == 2      \* the clock stops advancing here
MaxRows == 2      \* no refresh token is issued once the table holds this many rows
MaxAmount == 8    \* the largest number in a configured duration string

\* ---------------------------------------------------------------- inputs
Usernames == {"alice", "bob"}
Passwords == {"Password123!", "Password456!"}
\* values crypto.randomBytes(40).toString('hex') can return
Tokens    == {"t1", "t2"}

\* lengths of the strings used in request bodies (zod checks min/max on them)
StrLen(s) == CASE s = "al" -> 2
               [] s = "alice" -> 5
               [] s = "bob" -> 3
               [] s = "alice@x.com" -> 11
               [] s = "bob@x.com" -> 9
               [] s = "Password123!" -> 12
               [] s = "Password456!" -> 12
               [] OTHER -> 0

\* ---------------------------------------------------------------- config
JWT_SECRET == "JWT_SECRET"
JWT_ACCESS_EXPIRATION  == <<"1", "d">>
JWT_REFRESH_EXPIRATION == <<"1", "d">>

\* ---------------------------------------------------------------- text <-> number
Digits == <<"0", "1", "2", "3", "4", "5", "6", "7", "8", "9">>

IsDigit(c) == \E d \in 1..10 : Digits[d] = c

DigitVal(c) == (CHOOSE d \in 1..10 : Digits[d] = c) - 1

NaN == 0 - 1

\* the quotient of a positive number by zero
Infinity == 0 - 2

\* Number.prototype.toString() of a non-negative integer
RECURSIVE toString(_)
toString(n) == IF n < 10 THEN <<Digits[n + 1]>>
               ELSE toString(n \div 10) \o <<Digits[(n % 10) + 1]>>

\* the longest prefix of s made of decimal digits
RECURSIVE LeadingDigits(_)
LeadingDigits(s) == IF s = <<>> \/ ~IsDigit(Head(s)) THEN <<>>
                    ELSE <<Head(s)>> \o LeadingDigits(Tail(s))

RECURSIVE DecimalValue(_)
DecimalValue(s) == IF s = <<>> THEN 0
                   ELSE 10 * DecimalValue(SubSeq(s, 1, Len(s) - 1)) + DigitVal(s[Len(s)])

\* parseInt(s, 10): the value of the leading digits, NaN when there are none
parseInt(s) == IF LeadingDigits(s) = <<>> THEN NaN ELSE DecimalValue(LeadingDigits(s))

\* expirationStr.replace(/\D/g, '')
StripNonDigits(s) == SelectSeq(s, IsDigit)

\* jose's reading of a time span: a number followed by a unit; days are the
\* unit of time here
UnitDays(u) == CASE u = "d" -> 1 [] u = "w" -> 7 [] OTHER -> 0

joseTimeSpan(s) == parseInt(s) * UnitDays(s[Len(s)])

\* ---------------------------------------------------------------- state
VARIABLES
    users,          \* rows of the users table
    refreshTokens,  \* rows of the refresh_tokens table
    now,            \* CURRENT_TIMESTAMP / Date.now(), in days
    resp,           \* the last exchange: the request, the response (or return
                    \* value) and the statement that threw, if one did
    session,        \* the tokens a client holds from its last login or registration
    categories,     \* rows of the categories table
    tags,           \* rows of the tags table
    bookmarks,      \* rows of the bookmarks table
    bookmarkTags,   \* rows of the bookmark_tags table
    pending         \* the requests in flight: each one's handler and the statement it
                    \* awaits (empty where every request runs to its response at once)

\* the resource tables
crud == <<categories, tags, bookmarks, bookmarkTags>>

vars == <<users, refreshTokens, now, resp, session, crud, pending>>

Null == [null |-> TRUE]

NoToken == [form |-> "none", key |-> "", sub |-> <<>>, type |-> "", exp |-> 0]

EmptyBody == [f \in {} |-> ""]

NoHeader == [present |-> FALSE, scheme |-> "", credential |-> NoToken]

\* the pagination object of a response that is not a list
NoPagination == [total |-> 0, page |-> 0, limit |-> 0, pages |-> 0]

\* every exchange is a record of this shape: the request (body, header), the
\* response (status, type, message, details, accessToken, refreshToken), what the
\* gate did (handler invoked, userId and username set on the context), the values
\* the utils returned (tokenData, ret, count) and the statement that threw
Response(op) == [op |-> op, body |-> EmptyBody, header |-> NoHeader,
                 status |-> 0, type |-> "", message |-> "", details |-> FALSE,
                 handler |-> FALSE, userId |-> 0, username |-> "",
                 accessToken |-> NoToken, refreshToken |-> "",
                 tokenData |-> 0, ret |-> FALSE, count |-> 0, threw |-> "",
                 id |-> 0, items |-> {}, nextCalls |-> 0, escaped |-> FALSE,
                 pagination |-> NoPagination]

threw(r, statement) == [r EXCEPT !.threw = statement]

\* ---------------------------------------------------------------- utils/error, utils/response
sendUnauthorized(r, message) ==
    [r EXCEPT !.status = 401, !.type = "AUTHENTICATION_ERROR", !.message = message]

sendNotFound(r, message) ==
    [r EXCEPT !.status = 404, !.type = "NOT_FOUND", !.message = message]

sendValidationError(r, message) ==
    [r EXCEPT !.status = 400, !.type = "VALIDATION_ERROR", !.message = message,
              !.details = TRUE]

sendInternalError(r, message) ==
    [r EXCEPT !.status = 500, !.type = "INTERNAL_ERROR", !.message = message]

sendSuccess(r, message) == [r EXCEPT !.status = 200, !.message = message]

sendCreated(r, message) == [r EXCEPT !.status = 201, !.message = message]

sendRetrieved(r) == sendSuccess(r, "Resource retrieved successfully")

\* ---------------------------------------------------------------- models/users.model
hashPassword(password) == <<"sha256", password>>

ActiveUsersById(id) == {u \in users : u.id = id /\ u.isActive}

\* the lookup without the active=true filter
getUserById_anyRow(id) ==
    IF {u \in users : u.id = id} = {} THEN Null
    ELSE CHOOSE u \in {v \in users : v.id = id} : TRUE

getUserById(id) == IF ActiveUsersById(id) = {} THEN Null
                   ELSE CHOOSE u \in ActiveUsersById(id) : TRUE

ActiveUsersByUsername(username) == {u \in users : u.username = username /\ u.isActive}

\* the lookup without the active=true filter
getUserByUsername_anyRow(username) ==
    IF {u \in users : u.username = username} = {} THEN Null
    ELSE CHOOSE u \in {v \in users : v.username = username} : TRUE

getUserByUsername(username) ==
    IF ActiveUsersByUsername(username) = {} THEN Null
    ELSE CHOOSE u \in ActiveUsersByUsername(username) : TRUE

\* the id the serial column gives the next row
NextUserId == Cardinality(users) + 1

\* the unique constraints on users.username and users.email
UniqueViolation(username, email) ==
    \E u \in users : u.username = username \/ u.email = email

NewUser(body) == [id |-> NextUserId, username |-> body.username, email |-> body.email,
                  passwordHash |-> hashPassword(body.password), isActive |-> TRUE]

\* ---------------------------------------------------------------- utils/auth
\* the token minted with the wrong subject
generateAccessToken_wrongSub(user) ==
    [form |-> "jwt", key |-> JWT_SECRET, sub |-> toString(user.id + 1), type |-> "access",
     exp |-> now + joseTimeSpan(JWT_ACCESS_EXPIRATION)]

generateAccessToken(user) ==
    [form |-> "jwt", key |-> JWT_SECRET, sub |-> toString(user.id), type |-> "access",
     exp |-> now + joseTimeSpan(JWT_ACCESS_EXPIRATION)]

\* const days = parseInt(expirationStr.replace(/\D/g, ''), 10)
refreshDays(expirationStr) == parseInt(StripNonDigits(expirationStr))

RefreshDays == refreshDays(JWT_REFRESH_EXPIRATION)

RefreshRow(user, token) ==
    [userId |-> user.id, token |-> token, expiresAt |-> now + RefreshDays]

\* the insert of a single-session design: the user's earlier rows are replaced
InsertRefreshToken_singleSession(user, token) ==
    {r \in refreshTokens : r.userId # user.id} \cup {RefreshRow(user, token)}

\* insert ... onConflictDoNothing() under the unique (user_id, token) constraint
InsertRefreshToken(user, token) ==
    IF \E r \in refreshTokens : r.userId = user.id /\ r.token = token
    THEN refreshTokens
    ELSE refreshTokens \cup {RefreshRow(user, token)}

\* jose.jwtVerify throws on a malformed token, a bad signature and exp <= now
jwtVerifyThrows(token) ==
    \/ token.form # "jwt"
    \/ token.key # JWT_SECRET
    \/ token.exp <= now

\* the verifier without the check of the type field
verifyAccessToken_noTypeCheck(token) ==
    IF jwtVerifyThrows(token) THEN Null
    ELSE [sub |-> token.sub, type |-> token.type, exp |-> token.exp]

verifyAccessToken(token) ==
    IF jwtVerifyThrows(token) THEN Null
    ELSE IF token.type # "access" THEN Null
    ELSE [sub |-> token.sub, type |-> token.type, exp |-> token.exp]

\* rows the select of verifyRefreshToken matches
LiveRows(token) == {r \in refreshTokens : r.token = token /\ r.expiresAt > now}

\* what verifyRefreshToken can return: the user id of a matching row (the
\* select takes one of them, limit 1), 0 standing for null; a storage error is
\* caught and answered with null
verifyRefreshToken(token, failed) ==
    IF failed \/ LiveRows(token) = {} THEN {0}
    ELSE {r.userId : r \in LiveRows(token)}

\* the sweep that also deletes the rows expiring exactly now
ExpiredRows_orEqual == {r \in refreshTokens : r.expiresAt <= now}

\* rows the delete of cleanupExpiredTokens matches
ExpiredRows == {r \in refreshTokens : r.expiresAt < now}

\* rows the delete of removeRefreshToken matches
RowsOfToken(token) == {r \in refreshTokens : r.token = token}

\* the removal that reports failure when no row matched
removeRefreshTokenResult_matched(token, failed) == ~failed /\ RowsOfToken(token) # {}

\* the value removeRefreshToken returns: true unless the statement threw
removeRefreshTokenResult(token, failed) == ~failed

\* ---------------------------------------------------------------- request bodies
registerSchemaOk(body) ==
    /\ {"username", "email", "password"} \subseteq DOMAIN body
    /\ StrLen(body.username) >= 3 /\ StrLen(body.username) <= 50
    /\ StrLen(body.email) <= 100
    /\ StrLen(body.password) >= 8 /\ StrLen(body.password) <= 100

loginSchemaOk(body) == {"username", "password"} \subseteq DOMAIN body

refreshTokenSchemaOk(body) == "refreshToken" \in DOMAIN body

\* the password every account is registered with; logins try both passwords
RegisterPassword == "Password123!"

\* a registration per username, one that reuses an email, one with a short username
RegisterBodies ==
    {[username |-> "alice", email |-> "alice@x.com", password |-> RegisterPassword],
     [username |-> "bob", email |-> "bob@x.com", password |-> RegisterPassword],
     [username |-> "bob", email |-> "alice@x.com", password |-> RegisterPassword],
     [username |-> "al", email |-> "alice@x.com", password |-> RegisterPassword]}

LoginBodies == [username : Usernames, password : Passwords] \cup {EmptyBody}

RefreshTokenBodies == [refreshToken : Tokens] \cup {EmptyBody}

\* no login or registration has answered yet
NoSession == [accessToken |-> NoToken, refreshToken |-> "", loggedOut |-> FALSE]

\* ---------------------------------------------------------------- initial state
Init ==
    /\ users = {}
    /\ refreshTokens = {}
    /\ now = 0
    /\ resp = Response("init")
    /\ session = NoSession
    /\ categories = {}
    /\ tags = {}
    /\ bookmarks = {}
    /\ bookmarkTags = {}
    /\ pending = <<>>

\* ---------------------------------------------------------------- controllers/auth.controller
\* POST /api/auth/register
register(body, token, fail) ==
    LET r == [Response("register") EXCEPT !.body = body] IN
    /\ Cardinality(refreshTokens) < MaxRows
    /\ UNCHANGED now
    /\ IF ~registerSchemaOk(body)
       THEN /\ resp' = sendValidationError(r, "Invalid registration data")
            /\ UNCHANGED <<users, refreshTokens>>
       ELSE IF fail = "createUser" \/ UniqueViolation(body.username, body.email)
       THEN /\ resp' = sendInternalError(threw(r, "createUser"), "Failed to register user")
            /\ UNCHANGED <<users, refreshTokens>>
       ELSE LET user == NewUser(body) IN
            /\ users' = users \cup {user}
            /\ IF fail = "generateRefreshToken"
               THEN /\ resp' = sendInternalError(threw(r, "generateRefreshToken"),
                                                  "Failed to register user")
                    /\ UNCHANGED refreshTokens
               ELSE /\ refreshTokens' = InsertRefreshToken(user, token)
                    /\ resp' = sendCreated(
                         [r EXCEPT !.userId = user.id, !.username = user.username,
                                   !.accessToken = generateAccessToken(user),
                                   !.refreshToken = token],
                         "User registered successfully")

\* POST /api/auth/login
login(body, token, fail) ==
    LET r == [Response("login") EXCEPT !.body = body] IN
    /\ Cardinality(refreshTokens) < MaxRows
    /\ UNCHANGED <<users, now>>
    /\ IF ~loginSchemaOk(body)
       THEN /\ resp' = sendValidationError(r, "Invalid login data")
            /\ UNCHANGED refreshTokens
       ELSE IF fail = "getUserByUsername"
       THEN /\ resp' = sendInternalError(threw(r, "getUserByUsername"), "Failed to log in")
            /\ UNCHANGED refreshTokens
       ELSE LET user == getUserByUsername(body.username) IN
            IF user = Null
            THEN /\ resp' = sendUnauthorized(r, "Invalid username or password")
                 /\ UNCHANGED refreshTokens
            ELSE IF hashPassword(body.password) # user.passwordHash
            THEN /\ resp' = sendUnauthorized(r, "Invalid username or password")
                 /\ UNCHANGED refreshTokens
            ELSE IF fail = "generateRefreshToken"
            THEN /\ resp' = sendInternalError(threw(r, "generateRefreshToken"),
                                               "Failed to log in")
                 /\ UNCHANGED refreshTokens
            ELSE /\ refreshTokens' = InsertRefreshToken(user, token)
                 /\ resp' = sendSuccess(
                      [r EXCEPT !.userId = user.id, !.username = user.username,
                                !.accessToken = generateAccessToken(user),
                                !.refreshToken = token],
                      "Login successful")

\* a refresh that consumes the presented token
refreshToken_consuming(body, fail) ==
    /\ UNCHANGED <<users, now>>
    /\ refreshTokens' = {r \in refreshTokens :
                            ~(refreshTokenSchemaOk(body) /\ r.token = body.refreshToken)}
    /\ resp' = sendSuccess([Response("refresh-token") EXCEPT !.body = body],
                           "Token refreshed successfully")

\* POST /api/auth/refresh-token
refreshToken(body, fail) ==
    LET r == [Response("refresh-token") EXCEPT !.body = body] IN
    /\ UNCHANGED <<users, refreshTokens, now>>
    /\ IF ~refreshTokenSchemaOk(body)
       THEN resp' = sendValidationError(r, "Invalid refresh token data")
       ELSE \E tokenData \in verifyRefreshToken(body.refreshToken, fail = "verifyRefreshToken") :
            LET r1 == [r EXCEPT !.tokenData = tokenData,
                                !.threw = IF fail = "verifyRefreshToken" THEN fail ELSE ""] IN
            IF tokenData = 0
            THEN resp' = sendUnauthorized(r1, "Invalid refresh token")
            ELSE IF fail = "getUserById"
            THEN resp' = sendInternalError(threw(r1, "getUserById"), "Failed to refresh token")
            ELSE LET user == getUserById(tokenData) IN
                 IF user = Null
                 THEN resp' = sendNotFound(r1, "User not found")
                 ELSE resp' = sendSuccess(
                        [r1 EXCEPT !.accessToken = generateAccessToken(user)],
                        "Token refreshed successfully")

\* POST /api/auth/logout
logout(body, fail) ==
    LET r == [Response("logout") EXCEPT !.body = body] IN
    /\ UNCHANGED <<users, now>>
    /\ IF ~refreshTokenSchemaOk(body)
       THEN /\ resp' = sendValidationError(r, "Invalid refresh token data")
            /\ UNCHANGED refreshTokens
       ELSE LET token   == body.refreshToken
                failed  == (fail = "removeRefreshToken")
                removed == IF failed THEN {} ELSE RowsOfToken(token) IN
            /\ refreshTokens' = refreshTokens \ removed
            /\ resp' = sendSuccess(
                 [r EXCEPT !.ret = removeRefreshTokenResult(token, failed),
                           !.threw = IF failed THEN fail ELSE ""],
                 "Logout successful")

\* GET /api/auth/profile, behind the gate
getCurrentUser(r, userId, failed) ==
    IF failed THEN sendInternalError(threw(r, "handler"), "Failed to retrieve user profile")
    ELSE IF getUserById(userId) = Null THEN sendNotFound(r, "User not found")
    ELSE sendRetrieved(r)

\* the list handlers of the bookmark, category and tag routers, behind the gate
listResources(r, failed) ==
    IF failed
    THEN sendInternalError(threw(r, "handler"),
                           CASE r.op = "/api/bookmarks" -> "Failed to retrieve bookmarks"
                             [] r.op = "/api/categories" -> "Failed to retrieve categories"
                             [] OTHER -> "Failed to retrieve tags")
    ELSE sendSuccess(r, "Resources retrieved successfully")

\* ---------------------------------------------------------------- middlewares/auth.middleware
ProfileRoute == "/api/auth/profile"

ProtectedRoutes == {ProfileRoute, "/api/bookmarks", "/api/categories", "/api/tags"}

\* the prefix test made case-insensitive
startsWithBearer_anyCase(header) == header.scheme \in {"Bearer ", "bearer "}

\* authHeader.startsWith('Bearer ')
startsWithBearer(header) == header.scheme = "Bearer "

\* what a client can put after "Bearer ": a token signed with the server's secret
\* (any subject, type and expiry), one signed with another secret, or garbage
SignedTokens ==
    [form : {"jwt"}, key : {JWT_SECRET},
     sub : {toString(i) : i \in 1..Cardinality(Usernames)},
     type : {"access"}, exp : 1..(MaxTime + 1)]
      \cup [form : {"jwt"}, key : {JWT_SECRET}, sub : {toString(1)},
            type : {"refresh", "undefined"}, exp : {MaxTime + 1}]

ForgedToken == [form |-> "jwt", key |-> "other-secret", sub |-> toString(1),
                type |-> "access", exp |-> MaxTime + 1]

GarbageToken == [form |-> "garbage", key |-> "", sub |-> <<>>, type |-> "", exp |-> 0]

AccessTokenInputs == SignedTokens \cup {ForgedToken, GarbageToken}

Headers ==
    {NoHeader}
      \cup [present : {TRUE}, scheme : {"Basic ", "bearer "},
            credential : {generateAccessToken([id |-> 1])}]
      \cup [present : {TRUE}, scheme : {"Bearer "}, credential : AccessTokenInputs]

\* the gate whose catch block lets the exception through
gateCatch_rethrows(r) == [threw(r, "getUserById") EXCEPT !.escaped = TRUE]

\* the catch block of the gate: the exception is logged and answered 500
gateCatch(r) == sendInternalError(threw(r, "getUserById"), "Internal server error")

\* the context that carries the name sent by the client instead of the stored one
gateContext_unchecked(r, userId, user) ==
    [r EXCEPT !.handler = TRUE, !.nextCalls = 1, !.userId = userId, !.username = "guest"]

\* c.set('userId', userId); c.set('username', user.username); await next()
gateContext(r, userId, user) ==
    [r EXCEPT !.handler = TRUE, !.nextCalls = 1, !.userId = userId,
              !.username = user.username]

\* a request to a protected route: the gate, then the route's handler
authMiddleware(route, header, fail) ==
    LET r == [Response(route) EXCEPT !.header = header] IN
    /\ UNCHANGED <<users, refreshTokens, now>>
    /\ IF ~header.present \/ ~startsWithBearer(header)
       THEN resp' = sendUnauthorized(r, "No token provided")
       ELSE LET payload == verifyAccessToken(header.credential) IN
            IF payload = Null
            THEN resp' = sendUnauthorized(r, "Invalid token")
            ELSE LET userId == parseInt(payload.sub) IN
                 IF fail = "getUserById"
                 THEN resp' = gateCatch(r)
                 ELSE LET user == getUserById(userId) IN
                      IF user = Null
                      THEN resp' = sendUnauthorized(r, "User not found")
                      ELSE LET ctx == gateContext(r, userId, user) IN
                           IF route = ProfileRoute
                           THEN resp' = getCurrentUser(ctx, userId, fail = "handler")
                           ELSE resp' = listResources(ctx, fail = "handler")

\* the optional gate that rejects when the lookup throws
optionalCatch_rejects(r) ==
    sendInternalError(threw(r, "getUserById"), "Internal server error")

\* the catch block of the optional gate: the exception is logged, then next()
optionalCatch(r) == [threw(r, "getUserById") EXCEPT !.handler = TRUE, !.nextCalls = 1]

OptionalRoute == "optionalAuthMiddleware"

\* a request through the optional gate: the context is set when the token and the
\* user are good, and the downstream handler runs in every case
optionalAuthMiddleware(header, fail) ==
    LET r    == [Response(OptionalRoute) EXCEPT !.header = header]
        anon == [r EXCEPT !.handler = TRUE, !.nextCalls = 1] IN
    /\ UNCHANGED <<users, refreshTokens, now>>
    /\ IF header.present /\ startsWithBearer(header)
       THEN LET payload == verifyAccessToken(header.credential) IN
            IF payload = Null
            THEN resp' = anon
            ELSE LET userId == parseInt(payload.sub) IN
                 IF fail = "getUserById"
                 THEN resp' = optionalCatch(r)
                 ELSE LET user == getUserById(userId) IN
                      IF user = Null
                      THEN resp' = anon
                      ELSE resp' = gateContext(r, userId, user)
       ELSE resp' = anon

\* ---------------------------------------------------------------- background and model-level operations
\* the sweep without its catch block: the storage error reaches the timer
cleanupReturn_rethrows(failed, removed) ==
    [count |-> Cardinality(removed), escaped |-> failed]

\* what cleanupExpiredTokens hands back to the timer callback: the number of rows
\* deleted, or 0 from its catch block after a storage error; it never throws
cleanupReturn(failed, removed) ==
    [count |-> IF failed THEN 0 ELSE Cardinality(removed), escaped |-> FALSE]

\* the hourly timer: cleanupExpiredTokens()
cleanupExpiredTokens(failed) ==
    LET removed == IF failed THEN {} ELSE ExpiredRows IN
    /\ refreshTokens' = refreshTokens \ removed
    /\ resp' = [Response("cleanupExpiredTokens") EXCEPT
                   !.count = cleanupReturn(failed, removed).count,
                   !.escaped = cleanupReturn(failed, removed).escaped,
                   !.threw = IF failed THEN "cleanupExpiredTokens" ELSE ""]
    /\ UNCHANGED <<users, now>>

\* users.model deleteUser(id): the soft delete
deleteUser(id, failed) ==
    LET hit == IF failed THEN {} ELSE ActiveUsersById(id) IN
    /\ users' = (users \ hit) \cup {[u EXCEPT !.isActive = FALSE] : u \in hit}
    /\ resp' = [Response("deleteUser") EXCEPT !.ret = (hit # {}),
                                             !.threw = IF failed THEN "deleteUser" ELSE ""]
    /\ UNCHANGED <<refreshTokens, now>>

\* the clock advances by a day
Tick ==
    /\ now < MaxTime
    /\ now' = now + 1
    /\ resp' = Response("tick")
    /\ UNCHANGED <<users, refreshTokens, session, crud, pending>>

Register ==
    /\ \E body \in RegisterBodies, token \in Tokens,
          fail \in {"none", "createUser", "generateRefreshToken"} :
            register(body, token, fail)
    /\ UNCHANGED <<session, crud, pending>>

Login ==
    /\ \E body \in LoginBodies, token \in Tokens,
          fail \in {"none", "getUserByUsername", "generateRefreshToken"} :
            login(body, token, fail)
    /\ UNCHANGED <<session, crud, pending>>

RefreshToken ==
    /\ \E body \in RefreshTokenBodies,
          fail \in {"none", "verifyRefreshToken", "getUserById"} :
            refreshToken(body, fail)
    /\ UNCHANGED <<session, crud, pending>>

Logout ==
    /\ \E body \in RefreshTokenBodies, fail \in {"none", "removeRefreshToken"} :
          logout(body, fail)
    /\ UNCHANGED <<session, crud, pending>>

\* the statements a request with this header reaches, which can therefore throw
GateFailPoints(header) ==
    IF header.present /\ startsWithBearer(header) /\ verifyAccessToken(header.credential) # Null
    THEN {"none", "getUserById", "handler"}
    ELSE {"none"}

Protected ==
    /\ \E route \in ProtectedRoutes, header \in Headers :
          \E fail \in GateFailPoints(header) : authMiddleware(route, header, fail)
    /\ UNCHANGED <<session, crud, pending>>

Sweep ==
    /\ \E failed \in BOOLEAN : cleanupExpiredTokens(failed)
    /\ UNCHANGED <<session, crud, pending>>

Optional ==
    /\ \E header \in Headers :
          \E fail \in GateFailPoints(header) \ {"handler"} : optionalAuthMiddleware(header, fail)
    /\ UNCHANGED <<session, crud, pending>>

\* registrations on the gate side, where no refresh token is ever read
GateRegister ==
    /\ \E body \in RegisterBodies, fail \in {"none", "createUser"} :
          register(body, "t1", fail)
    /\ UNCHANGED <<session, crud, pending>>

DeleteUser ==
    /\ \E id \in 1..Cardinality(Usernames), failed \in BOOLEAN : deleteUser(id, failed)
    /\ UNCHANGED <<session, crud, pending>>

\* the session side: the auth endpoints, the sweep, the soft delete and the clock
Next == \/ Register
        \/ Login
        \/ RefreshToken
        \/ Logout
        \/ Sweep
        \/ DeleteUser
        \/ Tick

Spec == Init /\ [][Next]_vars

\* the gate side: registration, the soft delete, the clock and the protected routes
GateNext == \/ GateRegister
            \/ DeleteUser
            \/ Tick
            \/ Protected
            \/ Optional

GateSpec == Init /\ [][GateNext]_vars

\* the tokens of the response, kept by the client when the request succeeded
HeldTokens(r) ==
    IF r.status \in {200, 201}
    THEN [accessToken |-> r.accessToken, refreshToken |-> r.refreshToken,
          loggedOut |-> FALSE]
    ELSE session

\* a client registers and keeps the tokens of the response
SessionRegister ==
    /\ \E body \in RegisterBodies, token \in Tokens,
          fail \in {"none", "createUser", "generateRefreshToken"} :
            register(body, token, fail)
    /\ session' = HeldTokens(resp')
    /\ UNCHANGED <<crud, pending>>

\* a logout; the client's session is logged out when the request carried its
\* refresh token and was answered 200
SessionLogout ==
    /\ \E body \in RefreshTokenBodies, fail \in {"none", "removeRefreshToken"} :
          logout(body, fail)
    /\ session' = IF /\ resp'.status = 200
                     /\ session.refreshToken # ""
                     /\ resp'.body = [refreshToken |-> session.refreshToken]
                  THEN [session EXCEPT !.loggedOut = TRUE]
                  ELSE session
    /\ UNCHANGED <<crud, pending>>

\* the life of a session: tokens issued, used on the refresh endpoint and on the
\* protected routes, logged out
SessionNext == \/ SessionRegister
               \/ SessionLogout
               \/ RefreshToken
               \/ Protected
               \/ Tick

SessionSpec == Init /\ [][SessionNext]_vars

\* ================================================================ resources
\* rows of the resource tables together (categories, tags, bookmarks)
MaxResources == 2

\* the requests in flight at the same time
MaxCalls == 2

ResourceNames == {"work", "home"}

\* the :id path parameter as the client writes it
IdParams == {toString(i) : i \in 1..MaxResources} \cup {<<"x">>}

RowCount == Cardinality(categories) + Cardinality(tags) + Cardinality(bookmarks)

sendBadRequest(r, message) ==
    [r EXCEPT !.status = 400, !.type = "BAD_REQUEST", !.message = message]

sendUpdated(r, message) == sendSuccess(r, message)

sendDeleted(r, message) == sendSuccess(r, message)

\* Math.ceil(total / limit) on numbers: 0 / 0 is NaN, a positive total over 0
\* is Infinity
MathCeilQuotient(total, limit) ==
    IF limit = 0 THEN (IF total = 0 THEN NaN ELSE Infinity)
    ELSE (total + limit - 1) \div limit

sendList(r, data, total, page, limit) ==
    [sendSuccess(r, "Resources retrieved successfully") EXCEPT
        !.items = data,
        !.pagination = [total |-> total, page |-> page, limit |-> limit,
                        pages |-> MathCeilQuotient(total, limit)]]

\* a request on a resource route, as the handler finds it behind the gate:
\* userId and username are on the context
CrudRequest(op, userId, idParam, body) ==
    [gateContext(Response(op), userId, getUserById(userId)) EXCEPT
        !.id = parseInt(idParam), !.body = body]

\* the user ids the gate lets through
GateUserIds == {u.id : u \in {x \in users : x.isActive}}

\* ---------------------------------------------------------------- models/categories.model
\* unique (user_id, name) on categories: inactive rows count
categoriesUserIdNameUnique(userId, name, id) ==
    \A c \in categories : (c.userId = userId /\ c.name = name) => c.id = id

\* the row INSERT returns; ids come from the table's serial
categoryModel_createCategory(userId, name) ==
    [id |-> Cardinality(categories) + 1, userId |-> userId, name |-> name,
     isActive |-> TRUE]

categoryModel_getCategoryById_anyRow(id, userId) ==
    LET rows == {c \in categories : c.id = id /\ c.userId = userId}
    IN  IF rows = {} THEN Null ELSE CHOOSE c \in rows : TRUE

categoryModel_getCategoryById(id, userId) ==
    LET rows == {c \in categories : c.id = id /\ c.userId = userId /\ c.isActive}
    IN  IF rows = {} THEN Null ELSE CHOOSE c \in rows : TRUE

categoryModel_getCategoriesByUserId(userId) ==
    {c \in categories : c.userId = userId /\ c.isActive}

\* the table after UPDATE ... SET name WHERE id AND user_id
categoryModel_updateCategory(id, userId, data) ==
    {IF c.id = id /\ c.userId = userId /\ "name" \in DOMAIN data
     THEN [c EXCEPT !.name = data.name] ELSE c : c \in categories}

\* the table after UPDATE ... SET is_active = false WHERE id AND user_id AND is_active
categoryModel_deleteCategory(id, userId) ==
    {IF c.id = id /\ c.userId = userId /\ c.isActive
     THEN [c EXCEPT !.isActive = FALSE] ELSE c : c \in categories}

\* ---------------------------------------------------------------- controllers/categories.controller
createCategorySchemaOk(body) == "name" \in DOMAIN body

updateCategorySchemaOk(body) == DOMAIN body # {}

CategoryBodies ==
    {[name |-> n] : n \in ResourceNames} \cup {[description |-> "d"], EmptyBody}

getAllCategories(userId, fail) ==
    LET r == CrudRequest("GET /api/categories", userId, <<"0">>, EmptyBody)
    IN  /\ resp' = IF fail = "getCategoriesByUserId"
                   THEN sendInternalError(threw(r, fail), "Failed to retrieve categories")
                   ELSE LET data == categoryModel_getCategoriesByUserId(userId)
                        IN  sendList(r, data, Cardinality(data), 1, Cardinality(data))
        /\ UNCHANGED categories

getCategoryById(userId, idParam, fail) ==
    LET r == CrudRequest("GET /api/categories/:id", userId, idParam, EmptyBody)
        category == categoryModel_getCategoryById(r.id, userId)
    IN  /\ resp' = IF r.id = NaN
                   THEN sendBadRequest(r, "Invalid category ID")
                   ELSE IF fail = "getCategoryById"
                   THEN sendInternalError(threw(r, fail), "Failed to retrieve category")
                   ELSE IF category = Null
                   THEN sendNotFound(r, "Category not found")
                   ELSE [sendRetrieved(r) EXCEPT !.items = {category}]
        /\ UNCHANGED categories

createCategory(userId, body, fail) ==
    LET r == CrudRequest("POST /api/categories", userId, <<"0">>, body)
    IN  IF ~createCategorySchemaOk(body)
        THEN /\ resp' = sendValidationError(r, "Invalid category data")
             /\ UNCHANGED categories
        ELSE IF fail = "createCategory"
                \/ ~categoriesUserIdNameUnique(userId, body.name, 0)
        THEN /\ resp' = sendInternalError(threw(r, "createCategory"),
                                          "Failed to create category")
             /\ UNCHANGED categories
        ELSE LET newCategory == categoryModel_createCategory(userId, body.name)
             IN  /\ categories' = categories \cup {newCategory}
                 /\ resp' = [sendCreated(r, "Category created successfully") EXCEPT
                                !.items = {newCategory}]

updateCategory(userId, idParam, body, fail) ==
    LET r == CrudRequest("PUT /api/categories/:id", userId, idParam, body)
    IN  IF ~updateCategorySchemaOk(body)
        THEN /\ resp' = sendValidationError(r, "Invalid category data")
             /\ UNCHANGED categories
        ELSE IF r.id = NaN
        THEN /\ resp' = sendBadRequest(r, "Invalid category ID")
             /\ UNCHANGED categories
        ELSE IF fail = "getCategoryById"
        THEN /\ resp' = sendInternalError(threw(r, fail), "Failed to update category")
             /\ UNCHANGED categories
        ELSE IF categoryModel_getCategoryById(r.id, userId) = Null
        THEN /\ resp' = sendNotFound(r, "Category not found")
             /\ UNCHANGED categories
        ELSE IF fail = "updateCategory"
                \/ ("name" \in DOMAIN body
                    /\ ~categoriesUserIdNameUnique(userId, body.name, r.id))
        THEN /\ resp' = sendInternalError(threw(r, "updateCategory"),
                                          "Failed to update category")
             /\ UNCHANGED categories
        ELSE /\ categories' = categoryModel_updateCategory(r.id, userId, body)
             /\ resp' = [sendUpdated(r, "Category updated successfully") EXCEPT
                            !.items = {c \in categories' : c.id = r.id}]

deleteCategory(userId, idParam, fail) ==
    LET r == CrudRequest("DELETE /api/categories/:id", userId, idParam, EmptyBody)
    IN  IF r.id = NaN
        THEN /\ resp' = sendBadRequest(r, "Invalid category ID")
             /\ UNCHANGED categories
        ELSE IF fail = "getCategoryById"
        THEN /\ resp' = sendInternalError(threw(r, fail), "Failed to delete category")
             /\ UNCHANGED categories
        ELSE IF categoryModel_getCategoryById(r.id, userId) = Null
        THEN /\ resp' = sendNotFound(r, "Category not found")
             /\ UNCHANGED categories
        ELSE IF fail = "deleteCategory"
        THEN /\ resp' = sendInternalError(threw(r, fail), "Failed to delete category")
             /\ UNCHANGED categories
        ELSE /\ categories' = categoryModel_deleteCategory(r.id, userId)
             /\ resp' = sendDeleted(r, "Category deleted successfully")

\* ---------------------------------------------------------------- models/tags.model
\* unique (user_id, name) on tags: inactive rows count
tagsUserIdNameUnique(userId, name, id) ==
    \A t \in tags : (t.userId = userId /\ t.name = name) => t.id = id

\* the row INSERT returns; ids come from the table's serial
tagModel_createTag(userId, name) ==
    [id |-> Cardinality(tags) + 1, userId |-> userId, name |-> name,
     isActive |-> TRUE]

tagModel_getTagById(id, userId) ==
    LET rows == {t \in tags : t.id = id /\ t.userId = userId /\ t.isActive}
    IN  IF rows = {} THEN Null ELSE CHOOSE t \in rows : TRUE

tagModel_getTagsByUserId(userId) ==
    {t \in tags : t.userId = userId /\ t.isActive}

\* the table after UPDATE ... SET name WHERE id AND user_id AND is_active
tagModel_updateTag(id, userId, data) ==
    {IF t.id = id /\ t.userId = userId /\ t.isActive /\ "name" \in DOMAIN data
     THEN [t EXCEPT !.name = data.name] ELSE t : t \in tags}

\* the table after UPDATE ... SET is_active = false WHERE id AND user_id AND is_active
tagModel_deleteTag(id, userId) ==
    {IF t.id = id /\ t.userId = userId /\ t.isActive
     THEN [t EXCEPT !.isActive = FALSE] ELSE t : t \in tags}

\* ---------------------------------------------------------------- controllers/tags.controller
createTagSchemaOk(body) == "name" \in DOMAIN body

updateTagSchemaOk(body) == DOMAIN body # {}

TagBodies ==
    {[name |-> n] : n \in ResourceNames} \cup {[description |-> "d"], EmptyBody}

getAllTags(userId, fail) ==
    LET r == CrudRequest("GET /api/tags", userId, <<"0">>, EmptyBody)
    IN  /\ resp' = IF fail = "getTagsByUserId"
                   THEN sendInternalError(threw(r, fail), "Failed to retrieve tags")
                   ELSE LET data == tagModel_getTagsByUserId(userId)
                        IN  sendList(r, data, Cardinality(data), 1, Cardinality(data))
        /\ UNCHANGED tags

getTagById(userId, idParam, fail) ==
    LET r == CrudRequest("GET /api/tags/:id", userId, idParam, EmptyBody)
        tag == tagModel_getTagById(r.id, userId)
    IN  /\ resp' = IF r.id = NaN
                   THEN sendBadRequest(r, "Invalid tag ID")
                   ELSE IF fail = "getTagById"
                   THEN sendInternalError(threw(r, fail), "Failed to retrieve tag")
                   ELSE IF tag = Null
                   THEN sendNotFound(r, "Tag not found")
                   ELSE [sendRetrieved(r) EXCEPT !.items = {tag}]
        /\ UNCHANGED tags

createTag(userId, body, fail) ==
    LET r == CrudRequest("POST /api/tags", userId, <<"0">>, body)
    IN  IF ~createTagSchemaOk(body)
        THEN /\ resp' = sendValidationError(r, "Invalid tag data")
             /\ UNCHANGED tags
        ELSE IF fail = "createTag"
                \/ ~tagsUserIdNameUnique(userId, body.name, 0)
        THEN /\ resp' = sendInternalError(threw(r, "createTag"),
                                          "Failed to create tag")
             /\ UNCHANGED tags
        ELSE LET newTag == tagModel_createTag(userId, body.name)
             IN  /\ tags' = tags \cup {newTag}
                 /\ resp' = [sendCreated(r, "Tag created successfully") EXCEPT
                                !.items = {newTag}]

updateTag(userId, idParam, body, fail) ==
    LET r == CrudRequest("PUT /api/tags/:id", userId, idParam, body)
    IN  IF ~updateTagSchemaOk(body)
        THEN /\ resp' = sendValidationError(r, "Invalid tag data")
             /\ UNCHANGED tags
        ELSE IF r.id = NaN
        THEN /\ resp' = sendBadRequest(r, "Invalid tag ID")
             /\ UNCHANGED tags
        ELSE IF fail = "getTagById"
        THEN /\ resp' = sendInternalError(threw(r, fail), "Failed to update tag")
             /\ UNCHANGED tags
        ELSE IF tagModel_getTagById(r.id, userId) = Null
        THEN /\ resp' = sendNotFound(r, "Tag not found")
             /\ UNCHANGED tags
        ELSE IF fail = "updateTag"
                \/ ("name" \in DOMAIN body
                    /\ ~tagsUserIdNameUnique(userId, body.name, r.id))
        THEN /\ resp' = sendInternalError(threw(r, "updateTag"),
                                          "Failed to update tag")
             /\ UNCHANGED tags
        ELSE /\ tags' = tagModel_updateTag(r.id, userId, body)
             /\ resp' = [sendUpdated(r, "Tag updated successfully") EXCEPT
                            !.items = {t \in tags' : t.id = r.id}]

deleteTag(userId, idParam, fail) ==
    LET r == CrudRequest("DELETE /api/tags/:id", userId, idParam, EmptyBody)
    IN  IF r.id = NaN
        THEN /\ resp' = sendBadRequest(r, "Invalid tag ID")
             /\ UNCHANGED tags
        ELSE IF fail = "getTagById"
        THEN /\ resp' = sendInternalError(threw(r, fail), "Failed to delete tag")
             /\ UNCHANGED tags
        ELSE IF tagModel_getTagById(r.id, userId) = Null
        THEN /\ resp' = sendNotFound(r, "Tag not found")
             /\ UNCHANGED tags
        ELSE IF fail = "deleteTag"
        THEN /\ resp' = sendInternalError(threw(r, fail), "Failed to delete tag")
             /\ UNCHANGED tags
        ELSE /\ tags' = tagModel_deleteTag(r.id, userId)
             /\ resp' = sendDeleted(r, "Tag deleted successfully")

\* ---------------------------------------------------------------- models/bookmarks.model
\* the category a bookmark row points at must exist (foreign key on category_id)
bookmarksCategoryIdFkey(categoryId) ==
    categoryId = 0 \/ \E c \in categories : c.id = categoryId

\* body.categoryId, undefined and null both read as 0
categoryIdOf(data) == IF "categoryId" \in DOMAIN data THEN data.categoryId ELSE 0

tagNamesOf(data) == IF "tags" \in DOMAIN data THEN data.tags ELSE <<>>

\* the get-or-create that looks the name up among the tags of every user
RECURSIVE getOrCreateTags_anyUser(_, _, _, _)
getOrCreateTags_anyUser(userId, tagNames, tagRows, resolved) ==
    IF tagNames = <<>>
    THEN [threw |-> FALSE, tags |-> tagRows, resolved |-> resolved]
    ELSE LET name == Head(tagNames)
             existingTags == {t \in tagRows : t.name = name /\ t.isActive}
             newTag == [id |-> Cardinality(tagRows) + 1, userId |-> userId,
                        name |-> name, isActive |-> TRUE]
         IN  IF existingTags # {}
             THEN getOrCreateTags_anyUser(userId, Tail(tagNames), tagRows,
                                  resolved \cup {(CHOOSE t \in existingTags : TRUE).id})
             ELSE IF \E t \in tagRows : t.userId = userId /\ t.name = name
             THEN [threw |-> TRUE, tags |-> tagRows, resolved |-> resolved]
             ELSE getOrCreateTags_anyUser(userId, Tail(tagNames), tagRows \cup {newTag},
                                  resolved \cup {newTag.id})

\* the get-or-create of processBookmarkTags, one name after the other: the
\* active tag of that name, or else a new row, which the unique (user_id, name)
\* refuses when an inactive tag has the name
RECURSIVE getOrCreateTags(_, _, _, _)
getOrCreateTags(userId, tagNames, tagRows, resolved) ==
    IF tagNames = <<>>
    THEN [threw |-> FALSE, tags |-> tagRows, resolved |-> resolved]
    ELSE LET name == Head(tagNames)
             existingTags == {t \in tagRows :
                                 t.userId = userId /\ t.name = name /\ t.isActive}
             newTag == [id |-> Cardinality(tagRows) + 1, userId |-> userId,
                        name |-> name, isActive |-> TRUE]
         IN  IF existingTags # {}
             THEN getOrCreateTags(userId, Tail(tagNames), tagRows,
                                  resolved \cup {(CHOOSE t \in existingTags : TRUE).id})
             ELSE IF \E t \in tagRows : t.userId = userId /\ t.name = name
             THEN [threw |-> TRUE, tags |-> tagRows, resolved |-> resolved]
             ELSE getOrCreateTags(userId, Tail(tagNames), tagRows \cup {newTag},
                                  resolved \cup {newTag.id})

\* the tags and bookmark_tags tables after processBookmarkTags, and whether it threw
processBookmarkTags(bookmarkId, userId, tagNames, links) ==
    LET g == getOrCreateTags(userId, tagNames, tags, {})
    IN  [threw |-> g.threw, tags |-> g.tags,
         bookmarkTags |-> IF g.threw THEN links
                          ELSE links \cup {[bookmarkId |-> bookmarkId, tagId |-> id] :
                                              id \in g.resolved}]

\* the row INSERT returns; ids come from the table's serial
bookmarkModel_createBookmark(userId, data) ==
    [id |-> Cardinality(bookmarks) + 1, userId |-> userId,
     categoryId |-> categoryIdOf(data), title |-> data.title, isActive |-> TRUE]

\* the bookmark with its category (left join on category_id) and its active tags
BookmarkWithCategory(b, categoryRows, tagRows, links) ==
    [id |-> b.id, userId |-> b.userId, title |-> b.title, isActive |-> b.isActive,
     category |-> {[id |-> c.id, name |-> c.name] :
                      c \in {x \in categoryRows : x.id = b.categoryId}},
     tags |-> {[id |-> t.id, name |-> t.name] :
                  t \in {x \in tagRows : /\ x.isActive
                                         /\ [bookmarkId |-> b.id, tagId |-> x.id] \in links}}]

bookmarkModel_getBookmarkById(id, userId, bookmarkRows, tagRows, links) ==
    LET rows == {b \in bookmarkRows : b.id = id /\ b.userId = userId /\ b.isActive}
    IN  IF rows = {} THEN Null
        ELSE BookmarkWithCategory(CHOOSE b \in rows : TRUE, categories, tagRows, links)

\* the first page of the default query: every active bookmark of the user
bookmarkModel_getBookmarksByUserId(userId) ==
    {BookmarkWithCategory(b, categories, tags, bookmarkTags) :
        b \in {x \in bookmarks : x.userId = userId /\ x.isActive}}

\* the table after UPDATE ... SET <the fields given> WHERE id AND user_id
bookmarkModel_updateBookmark(id, userId, data) ==
    {IF b.id = id /\ b.userId = userId
     THEN [b EXCEPT !.title = IF "title" \in DOMAIN data THEN data.title ELSE @,
                    !.categoryId = IF "categoryId" \in DOMAIN data
                                   THEN data.categoryId ELSE @]
     ELSE b : b \in bookmarks}

\* the table after UPDATE ... SET is_active = false WHERE id AND user_id AND is_active
bookmarkModel_deleteBookmark(id, userId) ==
    {IF b.id = id /\ b.userId = userId /\ b.isActive
     THEN [b EXCEPT !.isActive = FALSE] ELSE b : b \in bookmarks}

\* ---------------------------------------------------------------- controllers/bookmarks.controller
createBookmarkSchemaOk(body) == {"title", "url"} \subseteq DOMAIN body

updateBookmarkSchemaOk(body) == DOMAIN body # {}

BookmarkBodies == {[title |-> "work", url |-> "u"], [title |-> "home"], EmptyBody}

getBookmarks(userId, fail) ==
    LET r == CrudRequest("GET /api/bookmarks", userId, <<"0">>, EmptyBody)
    IN  /\ resp' = IF fail = "getBookmarksByUserId"
                   THEN sendInternalError(threw(r, fail), "Failed to retrieve bookmarks")
                   ELSE LET data == bookmarkModel_getBookmarksByUserId(userId)
                        IN  sendList(r, data, Cardinality(data), 1, 10)
        /\ UNCHANGED <<tags, bookmarks, bookmarkTags>>

getBookmarkById(userId, idParam, fail) ==
    LET r == CrudRequest("GET /api/bookmarks/:id", userId, idParam, EmptyBody)
        bookmark == bookmarkModel_getBookmarkById(r.id, userId, bookmarks, tags,
                                                  bookmarkTags)
    IN  /\ resp' = IF r.id = NaN
                   THEN sendBadRequest(r, "Invalid bookmark ID")
                   ELSE IF fail = "getBookmarkById"
                   THEN sendInternalError(threw(r, fail), "Failed to retrieve bookmark")
                   ELSE IF bookmark = Null
                   THEN sendNotFound(r, "Bookmark not found")
                   ELSE [sendRetrieved(r) EXCEPT !.items = {bookmark}]
        /\ UNCHANGED <<tags, bookmarks, bookmarkTags>>

createBookmark(userId, body, fail) ==
    LET r == CrudRequest("POST /api/bookmarks", userId, <<"0">>, body)
        failed(statement) ==
            sendInternalError(threw(r, statement),
                              "Failed to create bookmark: " \o statement)
    IN  IF ~createBookmarkSchemaOk(body)
        THEN /\ resp' = sendValidationError(r, "Invalid bookmark data")
             /\ UNCHANGED <<tags, bookmarks, bookmarkTags>>
        ELSE IF fail = "createBookmark" \/ ~bookmarksCategoryIdFkey(categoryIdOf(body))
        THEN /\ resp' = failed("createBookmark")
             /\ UNCHANGED <<tags, bookmarks, bookmarkTags>>
        ELSE LET insertedBookmark == bookmarkModel_createBookmark(userId, body)
                 p == processBookmarkTags(insertedBookmark.id, userId, tagNamesOf(body),
                                          bookmarkTags)
             IN  /\ bookmarks' = bookmarks \cup {insertedBookmark}
                 /\ IF tagNamesOf(body) # <<>> /\ fail = "processBookmarkTags"
                    THEN /\ resp' = failed(fail)
                         /\ UNCHANGED <<tags, bookmarkTags>>
                    ELSE /\ tags' = p.tags
                         /\ bookmarkTags' = p.bookmarkTags
                         /\ resp' = IF p.threw
                                    THEN failed("processBookmarkTags")
                                    ELSE IF fail = "getBookmarkById"
                                    THEN failed(fail)
                                    ELSE [sendCreated(r, "Bookmark created successfully")
                                          EXCEPT !.items =
                                            {bookmarkModel_getBookmarkById(
                                                insertedBookmark.id, userId, bookmarks',
                                                tags', bookmarkTags')}]

updateBookmark(userId, idParam, body, fail) ==
    LET r == CrudRequest("PUT /api/bookmarks/:id", userId, idParam, body)
        failed(statement) ==
            sendInternalError(threw(r, statement),
                              "Failed to update bookmark: " \o statement)
        removed == {l \in bookmarkTags : l.bookmarkId # r.id}
        p == processBookmarkTags(r.id, userId, tagNamesOf(body), removed)
    IN  IF ~updateBookmarkSchemaOk(body)
        THEN /\ resp' = sendValidationError(r, "Invalid bookmark data")
             /\ UNCHANGED <<tags, bookmarks, bookmarkTags>>
        ELSE IF r.id = NaN
        THEN /\ resp' = sendBadRequest(r, "Invalid bookmark ID")
             /\ UNCHANGED <<tags, bookmarks, bookmarkTags>>
        ELSE IF fail = "getBookmarkById"
        THEN /\ resp' = failed(fail)
             /\ UNCHANGED <<tags, bookmarks, bookmarkTags>>
        ELSE IF bookmarkModel_getBookmarkById(r.id, userId, bookmarks, tags,
                                              bookmarkTags) = Null
        THEN /\ resp' = sendNotFound(r, "Bookmark not found")
             /\ UNCHANGED <<tags, bookmarks, bookmarkTags>>
        ELSE IF fail = "updateBookmark" \/ ~bookmarksCategoryIdFkey(categoryIdOf(body))
        THEN /\ resp' = failed("updateBookmark")
             /\ UNCHANGED <<tags, bookmarks, bookmarkTags>>
        ELSE /\ bookmarks' = bookmarkModel_updateBookmark(r.id, userId, body)
             /\ IF "tags" \notin DOMAIN body
                THEN /\ UNCHANGED <<tags, bookmarkTags>>
                     /\ resp' = IF fail = "getUpdatedBookmark" THEN failed(fail)
                                ELSE [sendUpdated(r, "Bookmark updated successfully")
                                      EXCEPT !.items =
                                        {bookmarkModel_getBookmarkById(
                                            r.id, userId, bookmarks', tags, bookmarkTags)}]
                ELSE IF fail = "deleteBookmarkTags"
                THEN /\ UNCHANGED <<tags, bookmarkTags>>
                     /\ resp' = failed(fail)
                ELSE IF body.tags # <<>> /\ fail = "processBookmarkTags"
                THEN /\ bookmarkTags' = removed
                     /\ UNCHANGED tags
                     /\ resp' = failed(fail)
                ELSE /\ tags' = p.tags
                     /\ bookmarkTags' = p.bookmarkTags
                     /\ resp' = IF p.threw
                                THEN failed("processBookmarkTags")
                                ELSE IF fail = "getUpdatedBookmark"
                                THEN failed(fail)
                                ELSE [sendUpdated(r, "Bookmark updated successfully")
                                      EXCEPT !.items =
                                        {bookmarkModel_getBookmarkById(
                                            r.id, userId, bookmarks', tags',
                                            bookmarkTags')}]

deleteBookmark(userId, idParam, fail) ==
    LET r == CrudRequest("DELETE /api/bookmarks/:id", userId, idParam, EmptyBody)
    IN  IF r.id = NaN
        THEN /\ resp' = sendBadRequest(r, "Invalid bookmark ID")
             /\ UNCHANGED <<tags, bookmarks, bookmarkTags>>
        ELSE IF fail = "getBookmarkById"
        THEN /\ resp' = sendInternalError(threw(r, fail), "Failed to delete bookmark")
             /\ UNCHANGED <<tags, bookmarks, bookmarkTags>>
        ELSE IF bookmarkModel_getBookmarkById(r.id, userId, bookmarks, tags,
                                              bookmarkTags) = Null
        THEN /\ resp' = sendNotFound(r, "Bookmark not found")
             /\ UNCHANGED <<tags, bookmarks, bookmarkTags>>
        ELSE IF fail = "deleteBookmark"
        THEN /\ resp' = sendInternalError(threw(r, fail), "Failed to delete bookmark")
             /\ UNCHANGED <<tags, bookmarks, bookmarkTags>>
        ELSE /\ bookmarks' = bookmarkModel_deleteBookmark(r.id, userId)
             /\ UNCHANGED <<tags, bookmarkTags>>
             /\ resp' = sendDeleted(r, "Bookmark deleted successfully")

\* ---------------------------------------------------------------- routes
rest == <<users, refreshTokens, now, session, pending>>

\* the statements that can throw in a request: none when the request is turned
\* down before the first query (a body the schema refuses, an id that is not a number)
FailPoints(queried, statements) == IF queried THEN {"none"} \cup statements ELSE {"none"}

\* the requests explored go to one resource at a time: each wrapper runs while
\* the tables of the other two resources are empty
Categories ==
    /\ tags = {} /\ bookmarks = {}
    /\ \E userId \in GateUserIds :
          \/ \E fail \in {"none", "getCategoriesByUserId"} : getAllCategories(userId, fail)
          \/ \E idParam \in IdParams :
                \E fail \in FailPoints(parseInt(idParam) # NaN, {"getCategoryById"}) :
                   getCategoryById(userId, idParam, fail)
          \/ \E body \in CategoryBodies :
                \E fail \in FailPoints(createCategorySchemaOk(body), {"createCategory"}) :
                   createCategory(userId, body, fail)
          \/ \E idParam \in IdParams, body \in CategoryBodies :
                \E fail \in FailPoints(updateCategorySchemaOk(body) /\ parseInt(idParam) # NaN,
                                       {"getCategoryById", "updateCategory"}) :
                   updateCategory(userId, idParam, body, fail)
          \/ \E idParam \in IdParams :
                \E fail \in FailPoints(parseInt(idParam) # NaN,
                                       {"getCategoryById", "deleteCategory"}) :
                   deleteCategory(userId, idParam, fail)
    /\ UNCHANGED <<rest, tags, bookmarks, bookmarkTags>>
    /\ RowCount' <= MaxResources

Tags ==
    /\ categories = {} /\ bookmarks = {}
    /\ \E userId \in GateUserIds :
          \/ \E fail \in {"none", "getTagsByUserId"} : getAllTags(userId, fail)
          \/ \E idParam \in IdParams :
                \E fail \in FailPoints(parseInt(idParam) # NaN, {"getTagById"}) :
                   getTagById(userId, idParam, fail)
          \/ \E body \in TagBodies :
                \E fail \in FailPoints(createTagSchemaOk(body), {"createTag"}) :
                   createTag(userId, body, fail)
          \/ \E idParam \in IdParams, body \in TagBodies :
                \E fail \in FailPoints(updateTagSchemaOk(body) /\ parseInt(idParam) # NaN,
                                       {"getTagById", "updateTag"}) :
                   updateTag(userId, idParam, body, fail)
          \/ \E idParam \in IdParams :
                \E fail \in FailPoints(parseInt(idParam) # NaN, {"getTagById", "deleteTag"}) :
                   deleteTag(userId, idParam, fail)
    /\ UNCHANGED <<rest, categories, bookmarks, bookmarkTags>>
    /\ RowCount' <= MaxResources

Bookmarks ==
    /\ categories = {} /\ tags = {}
    /\ \E userId \in GateUserIds :
          \/ \E fail \in {"none", "getBookmarksByUserId"} : getBookmarks(userId, fail)
          \/ \E idParam \in IdParams :
                \E fail \in FailPoints(parseInt(idParam) # NaN, {"getBookmarkById"}) :
                   getBookmarkById(userId, idParam, fail)
          \/ \E body \in BookmarkBodies :
                \E fail \in FailPoints(createBookmarkSchemaOk(body),
                                       {"createBookmark", "getBookmarkById"}) :
                   createBookmark(userId, body, fail)
          \/ \E idParam \in IdParams, body \in BookmarkBodies :
                \E fail \in FailPoints(updateBookmarkSchemaOk(body) /\ parseInt(idParam) # NaN,
                                       {"getBookmarkById", "updateBookmark",
                                        "getUpdatedBookmark"}) :
                   updateBookmark(userId, idParam, body, fail)
          \/ \E idParam \in IdParams :
                \E fail \in FailPoints(parseInt(idParam) # NaN,
                                       {"getBookmarkById", "deleteBookmark"}) :
                   deleteBookmark(userId, idParam, fail)
    /\ UNCHANGED <<rest, categories>>
    /\ RowCount' <= MaxResources

\* the resource side: registration and the requests on the resource routes
CrudNext == \/ GateRegister
            \/ Categories
            \/ Tags
            \/ Bookmarks

CrudSpec == Init /\ [][CrudNext]_vars

\* ================================================================ bookmarks with categories and tags
\* two registered users, as two registrations leave the database
BookmarkInit ==
    /\ users = {[id |-> 1, username |-> "alice", email |-> "alice@x.com",
                 passwordHash |-> hashPassword(RegisterPassword), isActive |-> TRUE],
                [id |-> 2, username |-> "bob", email |-> "bob@x.com",
                 passwordHash |-> hashPassword(RegisterPassword), isActive |-> TRUE]}
    /\ refreshTokens = {[userId |-> 1, token |-> "t1", expiresAt |-> RefreshDays],
                        [userId |-> 2, token |-> "t2", expiresAt |-> RefreshDays]}
    /\ now = 0
    /\ resp = Response("init")
    /\ session = NoSession
    /\ categories = {}
    /\ tags = {}
    /\ bookmarks = {}
    /\ bookmarkTags = {}
    /\ pending = <<>>

\* the ids a request can name
ResourceIds == {toString(i) : i \in 1..MaxResources}

\* bookmark bodies that name a category or carry a tags list
LinkedCreateBodies ==
    {[title |-> "work", url |-> "u"],
     [title |-> "work", url |-> "u", categoryId |-> 1],
     [title |-> "work", url |-> "u", tags |-> <<"work">>]}

LinkedUpdateBodies ==
    {[title |-> "home"],
     [categoryId |-> 1],
     [tags |-> <<>>],
     [tags |-> <<"work">>],
     [title |-> "home", tags |-> <<"work">>]}

\* the statements of a bookmark write that can throw under a body
BookmarkFailPoints(body) ==
    {"none", "updateBookmark", "getUpdatedBookmark"}
    \cup (IF "tags" \in DOMAIN body THEN {"deleteBookmarkTags"} ELSE {})
    \cup (IF tagNamesOf(body) # <<>> THEN {"processBookmarkTags"} ELSE {})

\* the writes on the category routes
CategoryWrites ==
    /\ \E userId \in GateUserIds :
          \/ createCategory(userId, [name |-> "work"], "none")
          \/ \E idParam \in ResourceIds :
                updateCategory(userId, idParam, [name |-> "home"], "none")
          \/ \E idParam \in ResourceIds : deleteCategory(userId, idParam, "none")
    /\ UNCHANGED <<rest, tags, bookmarks, bookmarkTags>>
    /\ RowCount' <= MaxResources

\* the writes on the tag routes
TagWrites ==
    /\ \E userId \in GateUserIds :
          \/ createTag(userId, [name |-> "work"], "none")
          \/ \E idParam \in ResourceIds : updateTag(userId, idParam, [name |-> "home"], "none")
          \/ \E idParam \in ResourceIds : deleteTag(userId, idParam, "none")
    /\ UNCHANGED <<rest, categories, bookmarks, bookmarkTags>>
    /\ RowCount' <= MaxResources

\* the bookmark routes, with bodies that name categories and tags
LinkedBookmarks ==
    /\ \E userId \in GateUserIds :
          \/ getBookmarks(userId, "none")
          \/ \E idParam \in ResourceIds : getBookmarkById(userId, idParam, "none")
          \/ \E body \in LinkedCreateBodies :
                \E fail \in BookmarkFailPoints(body) \ {"updateBookmark", "getUpdatedBookmark"} :
                   createBookmark(userId, body, fail)
          \/ \E idParam \in ResourceIds, body \in LinkedUpdateBodies :
                \E fail \in BookmarkFailPoints(body) :
                   updateBookmark(userId, idParam, body, fail)
          \/ \E idParam \in ResourceIds : deleteBookmark(userId, idParam, "none")
    /\ UNCHANGED <<rest, categories>>
    /\ RowCount' <= MaxResources

BookmarkSpec ==
    BookmarkInit /\ [][
        \/ CategoryWrites
        \/ TagWrites
        \/ LinkedBookmarks
    ]_vars

\* ================================================================ concurrent requests
\* the call after it has answered with response r
Answered(call, r) ==
    [pending EXCEPT ![call] = [@ EXCEPT !.pc = "done", !.status = r.status]]

\* ---------------------------------------------------------------- processBookmarkTags, statement by statement
\* POST /api/bookmarks with tags: the bookmark row is inserted, then
\* processBookmarkTags starts one get-or-create per name
StartCreateBookmark(call, userId, body) ==
    LET insertedBookmark == bookmarkModel_createBookmark(userId, body)
    IN  /\ call \notin DOMAIN pending
        /\ createBookmarkSchemaOk(body)
        /\ bookmarks' = bookmarks \cup {insertedBookmark}
        /\ pending' = pending @@
              (call :> [op |-> "POST /api/bookmarks", pc |-> "processBookmarkTags",
                        userId |-> userId, body |-> body, status |-> 0,
                        bookmarkId |-> insertedBookmark.id,
                        tagPromises |-> [i \in DOMAIN tagNamesOf(body) |->
                                           [pc |-> "select", tagId |-> 0]]])
        /\ UNCHANGED <<users, refreshTokens, now, session, categories, tags, bookmarkTags, resp>>

\* the SELECT of one callback: the active tag of the user with that name
SelectExistingTags(call, i) ==
    LET p == pending[call]
        name == tagNamesOf(p.body)[i]
        existingTags == {t \in tags : t.userId = p.userId /\ t.name = name /\ t.isActive}
    IN  /\ p.tagPromises[i].pc = "select"
        /\ pending' = [pending EXCEPT ![call].tagPromises[i] =
              IF existingTags # {}
              THEN [pc |-> "resolved", tagId |-> (CHOOSE t \in existingTags : TRUE).id]
              ELSE [pc |-> "insert", tagId |-> 0]]
        /\ UNCHANGED <<users, refreshTokens, now, session, crud, resp>>

\* the INSERT of one callback, which the unique (user_id, name) may refuse
InsertNewTag(call, i) ==
    LET p == pending[call]
        name == tagNamesOf(p.body)[i]
        newTag == [id |-> Cardinality(tags) + 1, userId |-> p.userId,
                   name |-> name, isActive |-> TRUE]
    IN  /\ p.tagPromises[i].pc = "insert"
        /\ IF \E t \in tags : t.userId = p.userId /\ t.name = name
           THEN /\ pending' = [pending EXCEPT ![call].tagPromises[i].pc = "rejected"]
                /\ UNCHANGED tags
           ELSE /\ tags' = tags \cup {newTag}
                /\ pending' = [pending EXCEPT ![call].tagPromises[i] =
                                  [pc |-> "resolved", tagId |-> newTag.id]]
        /\ UNCHANGED <<users, refreshTokens, now, session, categories, bookmarks, bookmarkTags, resp>>

\* Promise.all rejects with the first rejection: processBookmarkTags and
\* createBookmark rethrow, the controller's catch answers 500
ProcessBookmarkTagsThrows(call) ==
    LET p == pending[call]
        r == sendInternalError(
                 threw(CrudRequest(p.op, p.userId, <<"0">>, p.body), "processBookmarkTags"),
                 "Failed to create bookmark")
    IN  /\ p.pc = "processBookmarkTags"
        /\ \E i \in DOMAIN p.tagPromises : p.tagPromises[i].pc = "rejected"
        /\ resp' = r
        /\ pending' = Answered(call, r)
        /\ UNCHANGED <<users, refreshTokens, now, session, crud>>

\* every callback resolved: the INSERTs into bookmark_tags
InsertBookmarkTags(call) ==
    LET p == pending[call]
    IN  /\ p.pc = "processBookmarkTags"
        /\ \A i \in DOMAIN p.tagPromises : p.tagPromises[i].pc = "resolved"
        /\ bookmarkTags' = bookmarkTags \cup
              {[bookmarkId |-> p.bookmarkId, tagId |-> p.tagPromises[i].tagId] :
                  i \in DOMAIN p.tagPromises}
        /\ pending' = [pending EXCEPT ![call].pc = "getBookmarkById"]
        /\ UNCHANGED <<users, refreshTokens, now, session, categories, tags, bookmarks, resp>>

\* the controller reads the bookmark back and answers 201
AnswerCreated(call) ==
    LET p == pending[call]
        r == [sendCreated(CrudRequest(p.op, p.userId, <<"0">>, p.body),
                          "Bookmark created successfully")
              EXCEPT !.items = {bookmarkModel_getBookmarkById(
                                    p.bookmarkId, p.userId, bookmarks, tags, bookmarkTags)}]
    IN  /\ p.pc = "getBookmarkById"
        /\ resp' = r
        /\ pending' = Answered(call, r)
        /\ UNCHANGED <<users, refreshTokens, now, session, crud>>

TagRaceSpec ==
    BookmarkInit /\ [][
        \E call \in 1..MaxCalls :
           \/ \E userId \in GateUserIds, tagNames \in {<<"work">>, <<"work", "work">>,
                                                      <<"work", "home">>} :
                 StartCreateBookmark(call, userId,
                                     [title |-> "work", url |-> "u", tags |-> tagNames])
           \/ /\ call \in DOMAIN pending
              /\ \/ \E i \in DOMAIN pending[call].tagPromises :
                       SelectExistingTags(call, i) \/ InsertNewTag(call, i)
                 \/ ProcessBookmarkTagsThrows(call)
                 \/ InsertBookmarkTags(call)
                 \/ AnswerCreated(call)
    ]_vars

\* ---------------------------------------------------------------- PUT and DELETE /api/categories/:id, statement by statement
\* the request passed validation and isNaN: the handler awaits getCategoryById
StartCategoryCall(call, op, userId, idParam, body) ==
    /\ call \notin DOMAIN pending
    /\ pending' = pending @@
          (call :> [op |-> op, pc |-> "getCategoryById", userId |-> userId,
                    idParam |-> idParam, body |-> body, status |-> 0])
    /\ UNCHANGED <<users, refreshTokens, now, session, crud, resp>>

\* "Check if category exists": 404, or on to the UPDATE
CheckCategoryExists(call) ==
    LET p == pending[call]
        r == CrudRequest(p.op, p.userId, p.idParam, p.body)
        notFound == sendNotFound(r, "Category not found")
    IN  /\ p.pc = "getCategoryById"
        /\ IF categoryModel_getCategoryById(r.id, p.userId) = Null
           THEN /\ resp' = notFound
                /\ pending' = Answered(call, notFound)
           ELSE /\ pending' = [pending EXCEPT ![call].pc =
                      IF p.op = "PUT /api/categories/:id"
                      THEN "updateCategory" ELSE "deleteCategory"]
                /\ UNCHANGED resp
        /\ UNCHANGED <<users, refreshTokens, now, session, crud>>

\* the UPDATE ... SET name of the PUT and its answer
AwaitUpdateCategory(call) ==
    LET p == pending[call]
        r == CrudRequest(p.op, p.userId, p.idParam, p.body)
        updated == categoryModel_updateCategory(r.id, p.userId, p.body)
        updatedCategory == {c \in updated : c.id = r.id /\ c.userId = p.userId}
        answer == IF ~categoriesUserIdNameUnique(p.userId, p.body.name, r.id)
                  THEN sendInternalError(threw(r, "updateCategory"),
                                         "Failed to update category")
                  ELSE IF updatedCategory = {}
                  THEN sendInternalError(r, "Failed to update category")
                  ELSE [sendUpdated(r, "Category updated successfully") EXCEPT
                           !.items = updatedCategory]
    IN  /\ p.pc = "updateCategory"
        /\ categories' = IF answer.status = 200 THEN updated ELSE categories
        /\ resp' = answer
        /\ pending' = Answered(call, answer)
        /\ UNCHANGED <<users, refreshTokens, now, session, tags, bookmarks, bookmarkTags>>

\* the UPDATE ... SET is_active = false of the DELETE and its answer
AwaitDeleteCategory(call) ==
    LET p == pending[call]
        q == CrudRequest(p.op, p.userId, p.idParam, EmptyBody)
        deleted == categoryModel_deleteCategory(q.id, p.userId) # categories
        r == IF deleted
             THEN sendDeleted(q, "Category deleted successfully")
             ELSE sendInternalError(q, "Failed to delete category")
    IN  /\ p.pc = "deleteCategory"
        /\ categories' = categoryModel_deleteCategory(q.id, p.userId)
        /\ resp' = r
        /\ pending' = Answered(call, r)
        /\ UNCHANGED <<users, refreshTokens, now, session, tags, bookmarks, bookmarkTags>>

\* a category to work on
RaceCreateCategory ==
    /\ \E userId \in GateUserIds, name \in ResourceNames :
          createCategory(userId, [name |-> name], "none")
    /\ UNCHANGED <<rest, tags, bookmarks, bookmarkTags>>
    /\ RowCount' <= MaxResources

CategoryRaceSpec ==
    BookmarkInit /\ [][
        \/ RaceCreateCategory
        \/ \E call \in 1..MaxCalls :
              \/ \E userId \in GateUserIds, idParam \in ResourceIds :
                    \/ \E body \in {[name |-> n] : n \in ResourceNames} :
                          StartCategoryCall(call, "PUT /api/categories/:id", userId, idParam, body)
                    \/ StartCategoryCall(call, "DELETE /api/categories/:id", userId, idParam,
                                         EmptyBody)
              \/ /\ call \in DOMAIN pending
                 /\ \/ CheckCategoryExists(call)
                    \/ AwaitUpdateCategory(call)
                    \/ AwaitDeleteCategory(call)
    ]_vars

\* ================================================================ token lifetime
\* the values JWT_REFRESH_EXPIRATION is configured with: a number and a unit
DurationStrings == {toString(n) \o <<u>> : n \in 1..MaxAmount, u \in {"s", "m", "h", "d"}}

\* a day of Date.setDate, in seconds
SecondsPerDay == 86400

\* expiresAt.setDate(expiresAt.getDate() + days), as seconds since the epoch
expiresAt(issuedAt, expirationStr) ==
    issuedAt + refreshDays(expirationStr) * SecondsPerDay

\* the server starts with one of the configured lifetimes, on one of the days
DurationInit ==
    /\ users = {}
    /\ refreshTokens = {}
    /\ now \in 0..MaxTime
    /\ \E expirationStr \in DurationStrings :
          resp = [Response("config") EXCEPT
                     !.body = [JWT_REFRESH_EXPIRATION |-> expirationStr]]
    /\ session = NoSession
    /\ categories = {}
    /\ tags = {}
    /\ bookmarks = {}
    /\ bookmarkTags = {}
    /\ pending = <<>>

\* generateRefreshToken under the configured lifetime; the row's expiresAt is
\* in seconds since the epoch
GenerateRefreshToken ==
    /\ \E userId \in 1..Cardinality(Usernames), token \in Tokens :
          /\ \A row \in refreshTokens : row.userId # userId \/ row.token # token
          /\ refreshTokens' = refreshTokens \cup
                {[userId |-> userId, token |-> token,
                  expiresAt |-> expiresAt(now * SecondsPerDay,
                                          resp.body.JWT_REFRESH_EXPIRATION)]}
          /\ resp' = [Response("generateRefreshToken") EXCEPT
                         !.body = resp.body, !.userId = userId, !.refreshToken = token]
    /\ UNCHANGED <<users, now, session, crud, pending>>

DurationSpec == DurationInit /\ [][GenerateRefreshToken]_vars

\* ================================================================ claims
BearerHeader(token) == [present |-> TRUE, scheme |-> "Bearer ", credential |-> token]

RefreshBody(token) == [refreshToken |-> token]

LoginOk == resp.op = "login" /\ resp.status = 200

RegisterOk == resp.op = "register" /\ resp.status = 201

\* what the client receives
ResponseOf(r) == [status |-> r.status, type |-> r.type, message |-> r.message,
                  details |-> r.details, accessToken |-> r.accessToken,
                  refreshToken |-> r.refreshToken]

\* C1: once a POST /api/auth/logout carrying a refresh token T has returned, a
\* later POST /api/auth/refresh-token carrying T answers 401 and issues no access
\* token (stated for the refresh that directly follows the logout).
C1_LogoutRevokesToken ==
    [][(/\ resp.op = "logout"
        /\ resp.status = 200
        /\ resp'.op = "refresh-token"
        /\ resp'.body = resp.body)
         => (resp'.status = 401 /\ resp'.accessToken = NoToken)]_vars

\* C2: verifyRefreshToken(token) returns a user id if and only if the table holds
\* a row with exactly that token and expiresAt > now, the id is that row's owner,
\* and in every other case it returns null and the endpoint answers 401
\* AUTHENTICATION_ERROR.
C2_VerifyRefreshTokenIffLiveRow ==
    (resp.op = "refresh-token" /\ refreshTokenSchemaOk(resp.body))
      => /\ (resp.tokenData # 0)
              <=> (\E r \in refreshTokens : /\ r.token = resp.body.refreshToken
                                            /\ r.expiresAt > now)
         /\ (resp.tokenData # 0)
              => (\E r \in refreshTokens : /\ r.token = resp.body.refreshToken
                                           /\ r.expiresAt > now
                                           /\ r.userId = resp.tokenData)
         /\ (resp.tokenData = 0)
              => (resp.status = 401 /\ resp.type = "AUTHENTICATION_ERROR")

\* C3: a request to a protected route whose Authorization header is absent or does
\* not start with "Bearer " is answered 401 AUTHENTICATION_ERROR "No token
\* provided"; the handler is not invoked and no stored data changes.
C3_NoBearerRejected ==
    [][(/\ resp'.op \in ProtectedRoutes
        /\ (~resp'.header.present \/ resp'.header.scheme # "Bearer "))
         => /\ resp'.status = 401
            /\ resp'.type = "AUTHENTICATION_ERROR"
            /\ resp'.message = "No token provided"
            /\ ~resp'.handler
            /\ users' = users
            /\ refreshTokens' = refreshTokens]_vars

C3_Witness ==
    /\ resp.op \in ProtectedRoutes
    /\ resp.header.present
    /\ resp.header.scheme = "bearer "
    /\ verifyAccessToken(resp.header.credential) # Null
    /\ getUserById(parseInt(resp.header.credential.sub)) # Null
    /\ resp.status = 401

\* an access token that must not be accepted at the current time
UnacceptableToken(token) ==
    \/ token.form # "jwt"
    \/ token.key # JWT_SECRET
    \/ token.exp <= now
    \/ token.type # "access"

IssuedTo(token, id) ==
    /\ token.form = "jwt"
    /\ token.key = JWT_SECRET
    /\ token.type = "access"
    /\ token.exp > now
    /\ token.sub = toString(id)

\* no user row has that id, or the row's active flag is false
Deactivated(id) == \A u \in users : u.id = id => ~u.isActive

\* the last request went to a protected route with a token of a deactivated user
DeactivatedUserRequest ==
    /\ resp.op \in ProtectedRoutes
    /\ resp.header.present
    /\ resp.header.scheme = "Bearer "
    /\ \E id \in 1..Cardinality(Usernames) :
         IssuedTo(resp.header.credential, id) /\ Deactivated(id)

\* C5 as stated: once a user's active flag is false (or no row has that id), every
\* request to a protected route carrying an access token issued to that user is
\* rejected with 401 "User not found" and the handler is not invoked.
C5_InactiveUserGets401 ==
    DeactivatedUserRequest
      => /\ resp.status = 401
         /\ resp.message = "User not found"
         /\ ~resp.handler

\* C5 amended: such a request is always rejected without invoking the handler,
\* with 401 "User not found", or with 500 INTERNAL_ERROR "Internal server error"
\* when the user lookup itself throws; and a user whose active flag is false
\* stays inactive.
C5_InactiveUserRejected ==
    /\ [](DeactivatedUserRequest
            => /\ ~resp.handler
               /\ IF resp.threw = "getUserById"
                  THEN /\ resp.status = 500
                       /\ resp.type = "INTERNAL_ERROR"
                       /\ resp.message = "Internal server error"
                  ELSE /\ resp.status = 401
                       /\ resp.type = "AUTHENTICATION_ERROR"
                       /\ resp.message = "User not found")
    /\ [][\A u \in users : ~u.isActive => u \in users']_vars

\* the token of a user who registered and was then soft-deleted is refused
C5_Witness ==
    /\ DeactivatedUserRequest
    /\ \E u \in users : ~u.isActive /\ resp.header.credential.sub = toString(u.id)
    /\ resp.status = 401
    /\ resp.message = "User not found"

\* C6: a valid registration (well-formed body, every statement executes) is
\* answered 201 with non-empty accessToken and refreshToken; the access token
\* verifies to a payload whose sub is the textual id of the user row just created
\* and whose type is "access"; and GET /api/auth/profile with that access token
\* returns that same user id.
C6_RegistrationToken ==
    /\ [](RegisterOk
            => /\ resp.accessToken # NoToken
               /\ resp.refreshToken # ""
               /\ verifyAccessToken(resp.accessToken) # Null
               /\ verifyAccessToken(resp.accessToken).type = "access"
               /\ verifyAccessToken(resp.accessToken).sub = toString(resp.userId)
               /\ parseInt(verifyAccessToken(resp.accessToken).sub) = resp.userId
               /\ resp.userId = Cardinality(users)
               /\ \E u \in users : /\ u.id = resp.userId
                                   /\ u.username = resp.body.username
                                   /\ u.email = resp.body.email)
    /\ [][/\ (/\ resp'.op = "register"
              /\ registerSchemaOk(resp'.body)
              /\ resp'.threw = "")
               => resp'.status = 201
          /\ (/\ RegisterOk
              /\ resp'.op = ProfileRoute
              /\ resp'.header = BearerHeader(resp.accessToken)
              /\ resp'.threw = "")
               => (resp'.status = 200 /\ resp'.handler /\ resp'.userId = resp.userId)]_vars

\* the second account's registration: its token carries the text "2"
C6_Witness ==
    /\ RegisterOk
    /\ resp.userId = 2
    /\ resp.accessToken.sub = <<"2">>

\* the login cannot succeed: no active user has that username and that password
BadCredentials(body) ==
    ~\E u \in users : /\ u.username = body.username
                      /\ u.isActive
                      /\ u.passwordHash = hashPassword(body.password)

BadLogin == resp.op = "login" /\ loginSchemaOk(resp.body) /\ BadCredentials(resp.body)

InvalidCredentialsResponse ==
    [status |-> 401, type |-> "AUTHENTICATION_ERROR",
     message |-> "Invalid username or password", details |-> FALSE,
     accessToken |-> NoToken, refreshToken |-> ""]

LoginInternalErrorResponse ==
    [status |-> 500, type |-> "INTERNAL_ERROR", message |-> "Failed to log in",
     details |-> FALSE, accessToken |-> NoToken, refreshToken |-> ""]

\* C7 as stated: a login with a wrong password and a login with a username that
\* does not exist or belongs to an inactive user produce the same response: 401
\* AUTHENTICATION_ERROR, the same message, no details, and no token.
C7_BadLoginIs401 == BadLogin => ResponseOf(resp) = InvalidCredentialsResponse

\* C7 amended: the three kinds of failed login produce the same response, issue no
\* token and insert no refresh-token row; the response is the 401 above when the
\* user lookup executes and 500 INTERNAL_ERROR "Failed to log in" when it throws.
C7_BadLoginIndistinguishable ==
    /\ [](BadLogin
            => ResponseOf(resp) = IF resp.threw = "getUserByUsername"
                                  THEN LoginInternalErrorResponse
                                  ELSE InvalidCredentialsResponse)
    /\ [][(resp'.op = "login" /\ loginSchemaOk(resp'.body) /\ BadCredentials(resp'.body))
            => refreshTokens' = refreshTokens]_vars

\* the right password of a soft-deleted account is refused like a wrong one
C7_Witness ==
    /\ BadLogin
    /\ \E u \in users : /\ u.username = resp.body.username
                        /\ ~u.isActive
                        /\ u.passwordHash = hashPassword(resp.body.password)
    /\ ResponseOf(resp) = InvalidCredentialsResponse

\* C8: generateRefreshToken(u) returning t, followed by verifyRefreshToken(t)
\* before t's expiry and with t not removed in between, returns u's id (stated
\* for the refresh that directly follows the login or registration).
C8_RefreshTokenRoundTrip ==
    [][(/\ (LoginOk \/ RegisterOk)
        /\ resp'.op = "refresh-token"
        /\ resp'.body = RefreshBody(resp.refreshToken))
         => resp'.tokenData = resp.userId]_vars

\* C9: after cleanupExpiredTokens() completes without a storage error, no row with
\* expiresAt < now remains, every row with expiresAt >= now is still present and
\* unchanged, and the returned count is the number of rows deleted.
C9_SweepExact ==
    [][(resp'.op = "cleanupExpiredTokens" /\ resp'.threw = "")
         => /\ \A r \in refreshTokens' : r.expiresAt >= now
            /\ \A r \in refreshTokens : r.expiresAt >= now => r \in refreshTokens'
            /\ refreshTokens' \subseteq refreshTokens
            /\ resp'.count = Cardinality(refreshTokens \ refreshTokens')]_vars

\* a sweep deleted a row and kept the one that expires exactly now
C9_Witness ==
    /\ resp.op = "cleanupExpiredTokens"
    /\ resp.count > 0
    /\ \E r \in refreshTokens : r.expiresAt = now

C11_LogoutInvalidatesTokens ==
    session.loggedOut
      => /\ (resp.op = "refresh-token" /\ resp.body = RefreshBody(session.refreshToken))
              => (resp.status = 401 /\ resp.accessToken = NoToken)
         /\ (resp.op \in ProtectedRoutes /\ resp.header = BearerHeader(session.accessToken))
              => (resp.status = 401 /\ ~resp.handler)

AuthEndpoints == {"register", "login", "refresh-token", "logout"}

\* C12: for every auth endpoint (register, login, refresh-token, logout), a storage
\* failure during the request is surfaced as a 500 INTERNAL_ERROR response, never
\* as a success and never as an authentication error.
C12_StorageFailureIs500 ==
    (resp.op \in AuthEndpoints /\ resp.threw # "")
      => (resp.status = 500 /\ resp.type = "INTERNAL_ERROR")

FailedSweep == resp.op = "cleanupExpiredTokens" /\ resp.threw # ""

\* C13: a storage failure during the periodic sweep is swallowed:
\* cleanupExpiredTokens returns (0) instead of throwing, no table changes, and
\* afterwards the sweep can run again and the auth requests are still served.
C13_SweepFailureSwallowed ==
    /\ [](FailedSweep
            => /\ ~resp.escaped
               /\ resp.count = 0
               /\ ENABLED Sweep
               /\ ENABLED RefreshToken
               /\ ENABLED Logout)
    /\ [][(resp'.op = "cleanupExpiredTokens" /\ resp'.threw # "")
            => /\ refreshTokens' = refreshTokens
               /\ users' = users
               /\ crud' = crud]_vars
    /\ [][(FailedSweep /\ resp'.op = "refresh-token" /\ resp'.threw = ""
              /\ refreshTokenSchemaOk(resp'.body)
              /\ LiveRows(resp'.body.refreshToken) # {})
            => resp'.tokenData # 0]_vars

\* a sweep failed while an expired row was waiting to be deleted
C13_Witness ==
    /\ FailedSweep
    /\ ExpiredRows # {}

\* C14: an exception raised while the auth gate runs (the user lookup failing on a
\* storage error) is caught inside the gate and answered 500 INTERNAL_ERROR; it
\* does not escape the gate and the route handler is not invoked.
C14_GateExceptionIs500 ==
    (resp.op \in ProtectedRoutes /\ resp.threw = "getUserById")
      => /\ resp.status = 500
         /\ resp.type = "INTERNAL_ERROR"
         /\ resp.message = "Internal server error"
         /\ ~resp.escaped
         /\ ~resp.handler
         /\ resp.nextCalls = 0

\* the lookup threw for a good token of an active user
C14_Witness ==
    /\ resp.op \in ProtectedRoutes
    /\ resp.threw = "getUserById"
    /\ resp.status = 500
    /\ getUserById(parseInt(resp.header.credential.sub)) # Null

\* the optional gate attached a user to the context
Attached(r) == r.userId # 0 \/ r.username # ""

\* C15: the optional gate never rejects: every request proceeds to the downstream
\* handler exactly once; userId and username are attached if and only if the
\* header is a Bearer header, the token verifies and the user is active (and the
\* lookup did not throw); on every failure nothing is attached.
C15_OptionalGateNeverRejects ==
    (resp.op = OptionalRoute)
      => /\ resp.handler
         /\ resp.nextCalls = 1
         /\ resp.status \notin {401, 500}
         /\ ~resp.escaped
         /\ Attached(resp)
              <=> /\ resp.header.present
                  /\ resp.header.scheme = "Bearer "
                  /\ ~UnacceptableToken(resp.header.credential)
                  /\ \E u \in users : /\ u.isActive
                                        /\ toString(u.id) = resp.header.credential.sub
                  /\ resp.threw = ""
         /\ Attached(resp)
              => \E u \in users : /\ u.isActive
                                   /\ toString(u.id) = resp.header.credential.sub
                                   /\ resp.userId = u.id
                                   /\ resp.username = u.username

\* the lookup threw in the optional gate and the request went on anonymously
C15_Witness ==
    /\ resp.op = OptionalRoute
    /\ resp.threw = "getUserById"
    /\ resp.handler
    /\ ~Attached(resp)

\* C18: whenever a handler behind the auth gate runs, the context userId is the
\* numeric value of the sub claim of an access token that verified for this
\* request (valid signature, unexpired, type "access"), an active user row with
\* that id exists, and the context username is that row's stored username.
C18_GateContext ==
    (resp.op \in ProtectedRoutes /\ resp.handler)
      => /\ resp.header.present
         /\ resp.header.scheme = "Bearer "
         /\ resp.header.credential.form = "jwt"
         /\ resp.header.credential.key = JWT_SECRET
         /\ resp.header.credential.exp > now
         /\ resp.header.credential.type = "access"
         /\ toString(resp.userId) = resp.header.credential.sub
         /\ \E u \in users : /\ u.id = resp.userId
                              /\ u.isActive
                              /\ u.username = resp.username

\* the handler ran for the second account
C18_Witness ==
    /\ resp.op \in ProtectedRoutes
    /\ resp.handler
    /\ resp.userId = 2
    /\ resp.username \in Usernames

\* C19: under every interleaving of the sweep with login, refresh-token and logout
\* requests, the sweep never changes the outcome of a verifyRefreshToken call: a
\* refresh presenting a stored token with expiresAt > now always succeeds, and
\* every row the sweep deletes was already unusable for refresh.
C19_SweepNeverBreaksRefresh ==
    [][/\ (/\ resp'.op = "refresh-token"
            /\ refreshTokenSchemaOk(resp'.body)
            /\ \E r \in refreshTokens : /\ r.token = resp'.body.refreshToken
                                          /\ r.expiresAt > now)
             => resp'.tokenData # 0
       /\ (resp'.op = "cleanupExpiredTokens")
             => \A r \in refreshTokens \ refreshTokens' : ~(r.expiresAt > now)]_vars

\* C20: POST /api/auth/refresh-token, whatever its outcome, leaves the
\* refresh_tokens and users tables unchanged: the presented token is neither
\* rotated nor consumed; a stored row is never modified and is removed only by
\* logout or by the sweep.
C20_RefreshIsReadOnly ==
    [][/\ (resp'.op = "refresh-token")
             => (refreshTokens' = refreshTokens /\ users' = users)
       /\ (\E r \in refreshTokens : r \notin refreshTokens')
             => resp'.op \in {"logout", "cleanupExpiredTokens"}]_vars

\* a refresh succeeded and the token it presented is still stored and live
C20_Witness ==
    /\ resp.op = "refresh-token"
    /\ resp.status = 200
    /\ resp.accessToken # NoToken
    /\ LiveRows(resp.body.refreshToken) # {}

\* ---------------------------------------------------------------- C16
ItemRoutes(resource) == {"GET /api/" \o resource \o "/:id",
                         "PUT /api/" \o resource \o "/:id",
                         "DELETE /api/" \o resource \o "/:id"}

Resources == {"categories", "tags", "bookmarks"}

TableOf(resource) == IF resource = "categories" THEN categories
                     ELSE IF resource = "tags" THEN tags ELSE bookmarks

\* the ids of the rows of a resource the user has deleted
DeletedIds(table, userId) ==
    {row.id : row \in {x \in table : x.userId = userId /\ ~x.isActive}}

\* the request answered in this step is a GET, PUT or DELETE by the owner on an
\* id that was deleted before the step
OnDeletedId ==
    \E resource \in Resources :
       /\ resp'.op \in ItemRoutes(resource)
       /\ resp'.id \in DeletedIds(TableOf(resource), resp'.userId)

\* a DELETE answered 200 leaves the row of that id and owner inactive, a row
\* once inactive stays as it is, and no list response holds a deleted row
DeleteIsFinal ==
    /\ \A resource \in Resources :
          /\ (resp'.op = "DELETE /api/" \o resource \o "/:id" /\ resp'.status = 200)
                => resp'.id \in DeletedIds(TableOf(resource)', resp'.userId)
          /\ \A row \in TableOf(resource) : ~row.isActive => row \in TableOf(resource)'
          /\ (resp'.op = "GET /api/" \o resource /\ resp'.status = 200)
                => /\ {item.id : item \in resp'.items}
                         \cap DeletedIds(TableOf(resource)', resp'.userId) = {}
                   /\ \A item \in resp'.items : item.isActive

DuplicateTagName ==
    /\ "name" \in DOMAIN resp'.body
    /\ \/ /\ resp'.op = "POST /api/tags"
          /\ \E t \in tagModel_getTagsByUserId(resp'.userId) : t.name = resp'.body.name
       \/ /\ resp'.op = "PUT /api/tags/:id"
          /\ tagModel_getTagById(resp'.id, resp'.userId) # Null
          /\ \E t \in tagModel_getTagsByUserId(resp'.userId) :
                t.name = resp'.body.name /\ t.id # resp'.id

\* C17: creating a tag under a name the user already has, or renaming a tag to
\* the name of another tag of the user, is answered 409 CONFLICT and leaves the
\* tags table unchanged
C17_DuplicateTagIs409 ==
    [][DuplicateTagName =>
          /\ resp'.status = 409 /\ resp'.type = "CONFLICT"
          /\ tags' = tags]_vars

\* ---------------------------------------------------------------- C21
\* C21: a login or a registration removes no stored refresh token, a logout
\* with token T removes only rows whose token is T, and every other stored
\* token that verified before the step verifies after it, for the same users
C21_SeveralLiveTokens ==
    [][resp'.op \in {"register", "login", "logout"} =>
          /\ \A row \in refreshTokens :
                \/ row \in refreshTokens'
                \/ /\ resp'.op = "logout"
                   /\ refreshTokenSchemaOk(resp'.body)
                   /\ row.token = resp'.body.refreshToken
          /\ \A token \in Tokens :
                (resp'.op = "logout" /\ resp'.body = RefreshBody(token))
                \/ verifyRefreshToken(token, FALSE) = {0}
                \/ verifyRefreshToken(token, FALSE) \subseteq verifyRefreshToken(token, FALSE)']_vars

\* a login has just given a user a second live refresh token
C21_Witness ==
    /\ resp.op = "login" /\ resp.status = 200
    /\ \E a \in refreshTokens, b \in refreshTokens :
          /\ a.userId = resp.userId /\ b.userId = resp.userId
          /\ a.token # b.token
          /\ a.expiresAt > now /\ b.expiresAt > now

\* ---------------------------------------------------------------- C26
\* the user the lookup of the answered login or refresh was made for
LookedUp ==
    IF resp'.op = "login"
    THEN {u \in users : loginSchemaOk(resp'.body) /\ u.username = resp'.body.username}
    ELSE {u \in users : u.id = resp'.tokenData}

\* C26: login and refresh-token issue no access token and no refresh token for
\* a user whose active flag is false when the handler looks the user up; a
\* refresh token stored before the soft delete is not exchanged any more
C26_NoTokensForInactiveUser ==
    [][(resp'.op \in {"login", "refresh-token"} /\ \A u \in LookedUp : ~u.isActive) =>
          /\ resp'.accessToken = NoToken
          /\ resp'.refreshToken = ""
          /\ resp'.status # 200
          /\ refreshTokens' = refreshTokens]_vars

\* a live refresh token of a soft-deleted user was presented and turned down
C26_Witness ==
    /\ resp.op = "refresh-token"
    /\ resp.tokenData # 0
    /\ \E u \in users : u.id = resp.tokenData /\ ~u.isActive
    /\ resp.status = 404
    /\ resp.accessToken = NoToken

\* ---------------------------------------------------------------- C27
\* C27: a registration answered with an error leaves the users table and the
\* refresh_tokens table unchanged
C27_FailedRegisterChangesNothing ==
    [][(resp'.op = "register" /\ resp'.status >= 400) =>
          UNCHANGED <<users, refreshTokens>>]_vars

\* ---------------------------------------------------------------- C22
\* the seconds a unit of a duration string stands for
UnitSeconds(u) == CASE u = "s" -> 1 [] u = "m" -> 60 [] u = "h" -> 3600
                    [] u = "d" -> 86400 [] OTHER -> 0

\* the duration a string of a number and a unit denotes, in seconds
DurationSeconds(expirationStr) ==
    parseInt(expirationStr) * UnitSeconds(expirationStr[Len(expirationStr)])

\* C22: for every configured lifetime (a number followed by s, m, h or d) the
\* expiresAt generateRefreshToken stores is the issue time plus that duration
C22_ExpiresAtIsIssuePlusLifetime ==
    resp.op = "generateRefreshToken" =>
       \A row \in refreshTokens :
          (row.userId = resp.userId /\ row.token = resp.refreshToken) =>
             row.expiresAt = now * SecondsPerDay
                             + DurationSeconds(resp.body.JWT_REFRESH_EXPIRATION)

\* ---------------------------------------------------------------- C23
ListRoutes == {"GET /api/" \o resource : resource \in Resources}

\* C23: in every list response pagination.pages is a non-negative integer and
\* is the ceiling of total / limit
C23_PagesIsCeiling ==
    (resp.op \in ListRoutes /\ resp.status = 200) =>
       LET p == resp.pagination IN
       /\ p.pages \in Nat
       /\ p.pages * p.limit >= p.total
       /\ p.pages > 0 => (p.pages - 1) * p.limit < p.total

\* ---------------------------------------------------------------- C24
ResourceRoutes ==
    UNION {ItemRoutes(resource) \cup {"GET /api/" \o resource, "POST /api/" \o resource} :
              resource \in Resources}

OwnerOfBookmark(bookmarkId) == {b.userId : b \in {x \in bookmarks : x.id = bookmarkId}}

OwnerOfTag(tagId) == {t.userId : t \in {x \in tags : x.id = tagId}}

C25_OnlyOwnCategoriesShown ==
    (resp.op \in {"GET /api/bookmarks", "GET /api/bookmarks/:id"} /\ resp.status = 200) =>
       \A item \in resp.items : \A shown \in item.category :
          \E c \in categories : c.id = shown.id /\ c.userId = resp.userId

\* ---------------------------------------------------------------- C28
\* C28: a PUT /api/bookmarks/:id answered with an error leaves the bookmarks
\* table and the tag links as they were
C28_FailedPutChangesNothing ==
    [][(resp'.op = "PUT /api/bookmarks/:id" /\ resp'.status >= 400) =>
          UNCHANGED <<bookmarks, bookmarkTags>>]_vars

\* ---------------------------------------------------------------- C29
\* C29: every bookmark request that named tags and has been answered was
\* answered 201, and each name of its list is then on exactly one tag row of
\* its user
C29_GetOrCreateRaceFree ==
    \A call \in DOMAIN pending :
       LET p == pending[call]
       IN  (p.op = "POST /api/bookmarks" /\ p.pc = "done") =>
              /\ p.status = 201
              /\ \A i \in DOMAIN tagNamesOf(p.body) :
                    Cardinality({t \in tags : /\ t.userId = p.userId
                                              /\ t.name = tagNamesOf(p.body)[i]}) = 1

\* ---------------------------------------------------------------- C30
\* the step in which a PUT /api/categories/:id in flight runs its UPDATE and answers
PutAnswers(call) ==
    /\ call \in DOMAIN pending
    /\ pending[call].op = "PUT /api/categories/:id"
    /\ pending[call].pc = "updateCategory"
    /\ pending'[call].pc = "done"

\* C30: the UPDATE of a PUT changes no category row that is inactive, and a
\* PUT answered 200 carries a category that is active
C30_PutNeverTouchesDeletedCategory ==
    [][\A call \in 1..MaxCalls : PutAnswers(call) =>
          /\ \A c \in categories : ~c.isActive => c \in categories'
          /\ resp'.status = 200 => \A c \in resp'.items : c.isActive]_vars

====
